---- MODULE Spec2Model ----
(***************************************************************************)
(* Model of the booking-api user-creation path: the User entity and its    *)
(* validator, the Prisma-backed UserRepository, CreateUserUseCase.execute  *)
(* and the POST /users controller.                                         *)
(*                                                                         *)
(* A string is a sequence of one-character strings, so that trim(),        *)
(* length and the e-mail regular expression are computed on the            *)
(* characters as the code computes them.                                   *)
(***************************************************************************)
EXTENDS Naturals, Sequences, FiniteSets

VARIABLES
  store,    \* rows of the users table
  now,      \* the wall clock (Date.now(), NOW())
  pc,       \* per request: where its handler stands
  req,      \* per request: the JSON body {email, name}
  found,    \* per request: what findByEmail returned
  genId,    \* per request: the id generateId() produced
  entity,   \* per request: the User built by `new User(id, email, name)`
  out,      \* per request: how the request ended (result or thrown error)
  steps,    \* per request: the calls execute() has made, in order
  dupAtLookup, \* per request: the backend answered the lookup while a row held
               \* the request's email
  ePc,      \* entity bench: "input" or "built"
  eIn,      \* entity bench: the constructor arguments
  eRes,     \* entity bench: the result of the constructor
  rCall,    \* repository bench: the last call (operation, argument, backend up,
            \* time of the call)
  rRet,     \* repository bench: what the last call returned or threw
  rPrev,    \* repository bench: the rows before the last call
  rCreated  \* repository bench: per id, the entity create was given and the one
            \* it returned, until the id is updated or deleted

sysVars == <<store, now, pc, req, found, genId, entity, out, steps, dupAtLookup>>
repoVars == <<rCall, rRet, rPrev, rCreated>>
\* the variables of the benches
entVars == <<ePc, eIn, eRes, rCall, rRet, rPrev, rCreated>>
vars == <<store, now, pc, req, found, genId, entity, out, steps, dupAtLookup, ePc, eIn, eRes,
          rCall, rRet, rPrev, rCreated>>

----------------------------------------------------------------------------
(* Bounds of the model *)

MaxEmailLen == 5      \* entity bench: e-mail inputs are all strings up to this length
MaxShortName == 2     \* entity bench: name inputs are all strings up to this length ...
MaxIdLen == 1         \* entity bench: id inputs are all strings up to this length
NumRequests == 2      \* concurrent POST /users requests
MaxTime == 1          \* the clock runs 0..MaxTime

(* Program constants *)

MinNameLength == 2
MaxNameLength == 100

----------------------------------------------------------------------------
(* Strings *)

Whitespace == {" "}

RECURSIVE Rep(_, _)
Rep(c, n) == IF n = 0 THEN <<>> ELSE <<c>> \o Rep(c, n - 1)

StrsUpTo(alphabet, n) == UNION {[1..k -> alphabet] : k \in 0..n}

RECURSIVE TrimStart(_)
TrimStart(s) ==
  IF s # <<>> /\ Head(s) \in Whitespace THEN TrimStart(Tail(s)) ELSE s

RECURSIVE TrimEnd(_)
TrimEnd(s) ==
  IF s # <<>> /\ s[Len(s)] \in Whitespace
  THEN TrimEnd(SubSeq(s, 1, Len(s) - 1))
  ELSE s

\* String.prototype.trim()
Trim(s) == TrimEnd(TrimStart(s))

\* a JavaScript string is falsy exactly when it is empty
Falsy(s) == s = <<>>

----------------------------------------------------------------------------
(* User entity *)

ErrIdEmpty == "User ID cannot be empty"
ErrEmailEmpty == "User email cannot be empty"
ErrEmailInvalid == "User email must be a valid email address"
ErrNameEmpty == "User name cannot be empty"
ErrNameShort == "User name must be at least 2 characters long"
ErrNameLong == "User name must not exceed 100 characters"
NoError == "none"

Null == [null |-> TRUE]

\* /^[^\s@]+@[^\s@]+\.[^\s@]+$/.test(email)
\* [^\s@]+ matches s[a..b]
Segment(s, a, b) ==
  /\ a <= b
  /\ \A k \in a..b : s[k] \notin (Whitespace \cup {"@"})

isValidEmail(email) ==
  \E i, j \in 1..Len(email) :
    /\ email[i] = "@"
    /\ email[j] = "."
    /\ Segment(email, 1, i - 1)
    /\ Segment(email, i + 1, j - 1)
    /\ Segment(email, j + 1, Len(email))

\* mutant of validate: the length check comes before the emptiness check
validate_LengthFirst(id, email, name) ==
  IF Falsy(id) \/ Len(Trim(id)) = 0 THEN ErrIdEmpty
  ELSE IF Falsy(email) \/ Len(Trim(email)) = 0 THEN ErrEmailEmpty
  ELSE IF ~isValidEmail(email) THEN ErrEmailInvalid
  ELSE IF Len(name) < MinNameLength THEN ErrNameShort
  ELSE IF Falsy(name) \/ Len(Trim(name)) = 0 THEN ErrNameEmpty
  ELSE IF Len(name) > MaxNameLength THEN ErrNameLong
  ELSE NoError

\* mutant of validate: the name is not trimmed before the emptiness check
validate_NoTrim(id, email, name) ==
  IF Falsy(id) \/ Len(Trim(id)) = 0 THEN ErrIdEmpty
  ELSE IF Falsy(email) \/ Len(Trim(email)) = 0 THEN ErrEmailEmpty
  ELSE IF ~isValidEmail(email) THEN ErrEmailInvalid
  ELSE IF Falsy(name) THEN ErrNameEmpty
  ELSE IF Len(name) < MinNameLength THEN ErrNameShort
  ELSE IF Len(name) > MaxNameLength THEN ErrNameLong
  ELSE NoError

\* User.validate: the message of the first rule that fails, NoError if none does
validate(id, email, name) ==
  IF Falsy(id) \/ Len(Trim(id)) = 0 THEN ErrIdEmpty
  ELSE IF Falsy(email) \/ Len(Trim(email)) = 0 THEN ErrEmailEmpty
  ELSE IF ~isValidEmail(email) THEN ErrEmailInvalid
  ELSE IF Falsy(name) \/ Len(Trim(name)) = 0 THEN ErrNameEmpty
  ELSE IF Len(name) < MinNameLength THEN ErrNameShort
  ELSE IF Len(name) > MaxNameLength THEN ErrNameLong
  ELSE NoError

\* mutant of NewUser: the stored name is trimmed
NewUser_Trimmed(id, email, name, createdAt, updatedAt) ==
  LET msg == validate(id, email, name) IN
  IF msg = NoError
  THEN [ok |-> TRUE, error |-> NoError,
        user |-> [id |-> id, email |-> email, name |-> Trim(name),
                  createdAt |-> createdAt, updatedAt |-> updatedAt]]
  ELSE [ok |-> FALSE, error |-> msg, user |-> Null]

\* mutant of NewUser: the constructor does not call validate()
NewUser_Unvalidated(id, email, name, createdAt, updatedAt) ==
  [ok |-> TRUE, error |-> NoError,
   user |-> [id |-> id, email |-> email, name |-> name,
             createdAt |-> createdAt, updatedAt |-> updatedAt]]

\* new User(id, email, name, createdAt, updatedAt): the fields are assigned,
\* then validate() runs; a throw leaves no User behind
NewUser(id, email, name, createdAt, updatedAt) ==
  LET msg == validate(id, email, name) IN
  IF msg = NoError
  THEN [ok |-> TRUE, error |-> NoError,
        user |-> [id |-> id, email |-> email, name |-> name,
                  createdAt |-> createdAt, updatedAt |-> updatedAt]]
  ELSE [ok |-> FALSE, error |-> msg, user |-> Null]

\* mutant of updateName: the copy keeps the updatedAt of the original
updateName_StaleUpdatedAt(this, newName, t) ==
  NewUser(this.id, this.email, newName, this.createdAt, this.updatedAt)

\* User.updateName: new User(this.id, this.email, newName, this.createdAt, new Date())
updateName(this, newName, t) ==
  NewUser(this.id, this.email, newName, this.createdAt, t)

\* User.updateEmail: new User(this.id, newEmail, this.name, this.createdAt, new Date())
updateEmail(this, newEmail, t) ==
  NewUser(this.id, newEmail, this.name, this.createdAt, t)

----------------------------------------------------------------------------
(* CreateUserDto and the ValidationPipe (class-validator decorators) *)

DtoEmailInvalid == "Email must be a valid email address"
DtoEmailRequired == "Email is required"
DtoNameRequired == "Name is required"
DtoNameShort == "Name must be at least 2 characters long"
DtoNameLong == "Name must not exceed 100 characters"

\* a dot-separated run of non-empty atoms without whitespace or "@"
DotAtom(t) ==
  /\ t # <<>>
  /\ \A k \in 1..Len(t) : t[k] \notin (Whitespace \cup {"@"})
  /\ t[1] # "." /\ t[Len(t)] # "."
  /\ \A k \in 1..(Len(t) - 1) : ~(t[k] = "." /\ t[k + 1] = ".")

\* @IsEmail: user@domain, the domain a dotted name whose last label has at
\* least two characters
IsEmail(v) ==
  \E i \in 1..Len(v) :
    /\ v[i] = "@"
    /\ DotAtom(SubSeq(v, 1, i - 1))
    /\ LET d == SubSeq(v, i + 1, Len(v)) IN
       /\ DotAtom(d)
       /\ \E j \in 1..(Len(d) - 2) :
            d[j] = "." /\ \A k \in (j + 1)..Len(d) : d[k] # "."

\* @IsNotEmpty: the value is not '', null or undefined
IsNotEmpty(v) == v # <<>>

\* the messages the ValidationPipe collects for a body; none: the body passes
DtoErrors(body) ==
  {m \in {DtoEmailInvalid, DtoEmailRequired, DtoNameRequired, DtoNameShort, DtoNameLong} :
     \/ m = DtoEmailInvalid /\ ~IsEmail(body.email)
     \/ m = DtoEmailRequired /\ ~IsNotEmpty(body.email)
     \/ m = DtoNameRequired /\ ~IsNotEmpty(body.name)
     \/ m = DtoNameShort /\ Len(body.name) < MinNameLength
     \/ m = DtoNameLong /\ Len(body.name) > MaxNameLength}

----------------------------------------------------------------------------
(* The users table behind the Prisma client *)

PrismaConstraintError == "PrismaClientKnownRequestError"
PrismaNotFoundError == "PrismaClientKnownRequestError: record not found"
PrismaUnavailableError == "PrismaClientInitializationError"

\* a client call that cannot reach the database rejects and writes nothing
Unavailable(rows) ==
  [ok |-> FALSE, error |-> PrismaUnavailableError, rows |-> rows, row |-> Null]

\* id is the primary key and email is unique
ConstraintViolated(rows, data) ==
  \E r \in rows : r.id = data.id \/ r.email = data.email

\* mutant of PrismaUserCreate: the row is written whatever the table holds
PrismaUserCreate_Unchecked(rows, data, t) ==
  LET row == [id |-> data.id, email |-> data.email, name |-> data.name,
              createdAt |-> t, updatedAt |-> t] IN
  [ok |-> TRUE, error |-> NoError, rows |-> rows \cup {row}, row |-> row]

\* mutant of PrismaUserCreate: a row with the same id or e-mail is replaced
PrismaUserCreate_Upsert(rows, data, t) ==
  LET row == [id |-> data.id, email |-> data.email, name |-> data.name,
              createdAt |-> t, updatedAt |-> t] IN
  [ok |-> TRUE, error |-> NoError,
   rows |-> {r \in rows : r.id # data.id /\ r.email # data.email} \cup {row},
   row |-> row]

\* mutant of PrismaUserCreate: only the primary key is enforced
PrismaUserCreate_IdOnly(rows, data, t) ==
  IF \E r \in rows : r.id = data.id
  THEN [ok |-> FALSE, error |-> PrismaConstraintError, rows |-> rows, row |-> Null]
  ELSE LET row == [id |-> data.id, email |-> data.email, name |-> data.name,
                   createdAt |-> t, updatedAt |-> t] IN
       [ok |-> TRUE, error |-> NoError, rows |-> rows \cup {row}, row |-> row]

\* prisma.user.create({data: {id, email, name}}): INSERT ... NOW(), NOW() RETURNING *
PrismaUserCreate(rows, data, t) ==
  IF ConstraintViolated(rows, data)
  THEN [ok |-> FALSE, error |-> PrismaConstraintError, rows |-> rows, row |-> Null]
  ELSE LET row == [id |-> data.id, email |-> data.email, name |-> data.name,
                   createdAt |-> t, updatedAt |-> t] IN
       [ok |-> TRUE, error |-> NoError, rows |-> rows \cup {row}, row |-> row]

\* mutant of PrismaUserUpdate: a missing row is inserted (upsert)
PrismaUserUpdate_Upsert(rows, id, data, t) ==
  IF ~\E r \in rows : r.id = id
  THEN LET row == [id |-> id, email |-> data.email, name |-> data.name,
                   createdAt |-> t, updatedAt |-> t] IN
       [ok |-> TRUE, error |-> NoError, rows |-> rows \cup {row}, row |-> row]
  ELSE LET old == CHOOSE r \in rows : r.id = id
           row == [id |-> id, email |-> data.email, name |-> data.name,
                   createdAt |-> old.createdAt, updatedAt |-> t] IN
       IF \E r \in rows \ {old} : r.email = data.email
       THEN [ok |-> FALSE, error |-> PrismaConstraintError, rows |-> rows, row |-> Null]
       ELSE [ok |-> TRUE, error |-> NoError, rows |-> (rows \ {old}) \cup {row}, row |-> row]

\* mutant of PrismaUserUpdate: the row is written anew, createdAt included
PrismaUserUpdate_Rewrite(rows, id, data, t) ==
  IF ~\E r \in rows : r.id = id
  THEN [ok |-> FALSE, error |-> PrismaNotFoundError, rows |-> rows, row |-> Null]
  ELSE LET old == CHOOSE r \in rows : r.id = id
           row == [id |-> id, email |-> data.email, name |-> data.name,
                   createdAt |-> t, updatedAt |-> t] IN
       IF \E r \in rows \ {old} : r.email = data.email
       THEN [ok |-> FALSE, error |-> PrismaConstraintError, rows |-> rows, row |-> Null]
       ELSE [ok |-> TRUE, error |-> NoError, rows |-> (rows \ {old}) \cup {row}, row |-> row]

\* prisma.user.update({where: {id}, data: {email, name}})
PrismaUserUpdate(rows, id, data, t) ==
  IF ~\E r \in rows : r.id = id
  THEN [ok |-> FALSE, error |-> PrismaNotFoundError, rows |-> rows, row |-> Null]
  ELSE LET old == CHOOSE r \in rows : r.id = id
           row == [id |-> id, email |-> data.email, name |-> data.name,
                   createdAt |-> old.createdAt, updatedAt |-> t] IN
       IF \E r \in rows \ {old} : r.email = data.email
       THEN [ok |-> FALSE, error |-> PrismaConstraintError, rows |-> rows, row |-> Null]
       ELSE [ok |-> TRUE, error |-> NoError, rows |-> (rows \ {old}) \cup {row}, row |-> row]

\* prisma.user.delete({where: {id}}): throws when no row has the id
PrismaUserDelete(rows, id) ==
  IF \E r \in rows : r.id = id
  THEN [ok |-> TRUE, error |-> NoError, rows |-> {r \in rows : r.id # id}]
  ELSE [ok |-> FALSE, error |-> PrismaNotFoundError, rows |-> rows]

\* row -> entity mapping used by every repository method
ToEntity(row) == NewUser(row.id, row.email, row.name, row.createdAt, row.updatedAt)

----------------------------------------------------------------------------
(* UserRepository *)

\* mutant of RepoCreate: the timestamps of the entity are written to the row
RepoCreate_KeepTimestamps(up, rows, user, t) ==
  LET r == IF up
           THEN PrismaUserCreate(rows, [id |-> user.id, email |-> user.email, name |-> user.name],
                                 user.createdAt)
           ELSE Unavailable(rows) IN
  IF ~r.ok
  THEN [ok |-> FALSE, error |-> r.error, rows |-> r.rows, user |-> Null]
  ELSE LET u == ToEntity(r.row) IN
       [ok |-> u.ok, error |-> u.error, rows |-> r.rows, user |-> u.user]

\* UserRepository.create; up: the backend answers this call
RepoCreate(up, rows, user, t) ==
  LET r == IF up
           THEN PrismaUserCreate(rows, [id |-> user.id, email |-> user.email, name |-> user.name], t)
           ELSE Unavailable(rows) IN
  IF ~r.ok
  THEN [ok |-> FALSE, error |-> r.error, rows |-> r.rows, user |-> Null]
  ELSE LET u == ToEntity(r.row) IN
       [ok |-> u.ok, error |-> u.error, rows |-> r.rows, user |-> u.user]

\* mutant of RepoFindByEmail: the lookup never finds a row
RepoFindByEmail_Blind(up, rows, email) ==
  IF ~up
  THEN [ok |-> FALSE, error |-> PrismaUnavailableError, user |-> Null]
  ELSE [ok |-> TRUE, error |-> NoError, user |-> Null]

\* mutant of RepoFindByEmail: the where clause is lost, any row is returned
RepoFindByEmail_AnyRow(up, rows, email) ==
  IF ~up
  THEN [ok |-> FALSE, error |-> PrismaUnavailableError, user |-> Null]
  ELSE IF rows = {}
  THEN [ok |-> TRUE, error |-> NoError, user |-> Null]
  ELSE ToEntity(CHOOSE r \in rows : TRUE)

\* UserRepository.findByEmail
RepoFindByEmail(up, rows, email) ==
  IF ~up
  THEN [ok |-> FALSE, error |-> PrismaUnavailableError, user |-> Null]
  ELSE IF ~\E r \in rows : r.email = email
  THEN [ok |-> TRUE, error |-> NoError, user |-> Null]
  ELSE ToEntity(CHOOSE r \in rows : r.email = email)

\* mutant of RepoFindById: the row is looked up under the wrong column
RepoFindById_WrongKey(up, rows, id) ==
  IF ~up
  THEN [ok |-> FALSE, error |-> PrismaUnavailableError, user |-> Null]
  ELSE IF ~\E r \in rows : r.email = id
  THEN [ok |-> TRUE, error |-> NoError, user |-> Null]
  ELSE ToEntity(CHOOSE r \in rows : r.email = id)

\* UserRepository.findById
RepoFindById(up, rows, id) ==
  IF ~up
  THEN [ok |-> FALSE, error |-> PrismaUnavailableError, user |-> Null]
  ELSE IF ~\E r \in rows : r.id = id
  THEN [ok |-> TRUE, error |-> NoError, user |-> Null]
  ELSE ToEntity(CHOOSE r \in rows : r.id = id)

\* mutant of PrismaUserFindMany: the rows come oldest first
PrismaUserFindMany_Ascending(rows) ==
  {q \in [1..Cardinality(rows) -> rows] :
     /\ \A i, j \in 1..Cardinality(rows) : i # j => q[i] # q[j]
     /\ \A i, j \in 1..Cardinality(rows) : i < j => q[i].createdAt <= q[j].createdAt}

\* prisma.user.findMany({orderBy: {createdAt: 'desc'}}): the rows, newest first;
\* rows of equal createdAt come in an order the database chooses
PrismaUserFindMany(rows) ==
  {q \in [1..Cardinality(rows) -> rows] :
     /\ \A i, j \in 1..Cardinality(rows) : i # j => q[i] # q[j]
     /\ \A i, j \in 1..Cardinality(rows) : i < j => q[i].createdAt >= q[j].createdAt}

\* UserRepository.findAll: the results the call may give
RepoFindAll(up, rows) ==
  IF ~up
  THEN {[ok |-> FALSE, error |-> PrismaUnavailableError, users |-> <<>>]}
  ELSE {[ok |-> \A i \in 1..Len(q) : ToEntity(q[i]).ok,
         error |-> NoError,
         users |-> [i \in 1..Len(q) |-> ToEntity(q[i]).user]] : q \in PrismaUserFindMany(rows)}

\* mutant of RepoExistsByEmail: the comparison with null is inverted
RepoExistsByEmail_Inverted(up, rows, email) ==
  IF ~up
  THEN [ok |-> FALSE, error |-> PrismaUnavailableError, value |-> FALSE]
  ELSE [ok |-> TRUE, error |-> NoError, value |-> ~\E r \in rows : r.email = email]

\* UserRepository.existsByEmail
RepoExistsByEmail(up, rows, email) ==
  IF ~up
  THEN [ok |-> FALSE, error |-> PrismaUnavailableError, value |-> FALSE]
  ELSE [ok |-> TRUE, error |-> NoError, value |-> \E r \in rows : r.email = email]

\* UserRepository.update
RepoUpdate(up, rows, user, t) ==
  LET r == IF up
           THEN PrismaUserUpdate(rows, user.id, [email |-> user.email, name |-> user.name], t)
           ELSE Unavailable(rows) IN
  IF ~r.ok
  THEN [ok |-> FALSE, error |-> r.error, rows |-> r.rows, user |-> Null]
  ELSE LET u == ToEntity(r.row) IN
       [ok |-> u.ok, error |-> u.error, rows |-> r.rows, user |-> u.user]

\* UserRepository.delete: any failure of the client call becomes `false`
RepoDelete(up, rows, id) ==
  LET r == IF up THEN PrismaUserDelete(rows, id) ELSE Unavailable(rows) IN
  [ok |-> TRUE, error |-> NoError, rows |-> r.rows, value |-> r.ok]

----------------------------------------------------------------------------
(* Inputs of the requests *)

Requests == 1..NumRequests

EmailA == <<"a", "@", "b", ".", "c", "o">>
EmailB == <<"c", "@", "b", ".", "c", "o">>
EmailBad == <<"b", "a", "d">>
NameJo == <<"J", "o">>
NameBlank == <<" ", " ">>
NameJ == <<"J">>

\* the e-mails and names the requests carry; EmailB reaches the table through
\* the other callers of the repository
ReqEmails == {EmailA, EmailBad}
ReqNames == {NameJo, NameBlank, NameJ}

\* generateId(): `user_${Date.now()}_${random}`; two draws may coincide
GenIds == {<<"u", "1">>, <<"u", "2">>}

NoBody == [email |-> <<>>, name |-> <<>>]
NoOut == [kind |-> "pending", msg |-> NoError, body |-> Null]
NoCall == [op |-> "none", up |-> TRUE, at |-> 0, arg |-> Null]
NoRet == [ok |-> TRUE, error |-> NoError, value |-> Null]

----------------------------------------------------------------------------
(* CreateUserUseCase.execute and UserController.create *)

ConflictMessage == "User with this email already exists"

\* mutant of ExistingUserFound: the existence check is dropped
ExistingUserFound_Never(existing) == FALSE

\* mutant of ExistingUserFound: the condition is negated
ExistingUserFound_Negated(existing) == existing = Null

\* `if (existingUser)`
ExistingUserFound(existing) == existing # Null

\* mutant of CreateFailure: a rejected insert is reported as the domain conflict
CreateFailure_AsConflict(err) ==
  [kind |-> "ConflictException", msg |-> ConflictMessage, body |-> Null]

\* `await this.userRepository.create(user)` throws: the error leaves execute as it is
CreateFailure(err) ==
  [kind |-> IF err \in {PrismaConstraintError, PrismaNotFoundError, PrismaUnavailableError}
            THEN "PrismaError" ELSE "Error",
   msg |-> err, body |-> Null]

\* mutant of LookupFailure: the error is caught and wrapped into another one
LookupFailure_Wrapped(err) ==
  [kind |-> "InternalServerErrorException", msg |-> "Internal server error", body |-> Null]

\* `await this.userRepository.findByEmail(email)` throws: the error leaves
\* execute as it is
LookupFailure(err) ==
  [kind |-> IF err \in {PrismaConstraintError, PrismaNotFoundError, PrismaUnavailableError}
            THEN "PrismaError" ELSE "Error",
   msg |-> err, body |-> Null]

\* mutant of ConstructionFailure: the validation error is swallowed into a conflict
ConstructionFailure_AsConflict(err) ==
  [kind |-> "ConflictException", msg |-> ConflictMessage, body |-> Null]

\* `new User(id, email, name)` throws: the Error leaves execute as it is
ConstructionFailure(err) == [kind |-> "Error", msg |-> err, body |-> Null]

\* mutant of ResponseSource: the response is built from the entity execute
\* constructed, not from the one create returned
ResponseSource_Built(user, createdUser) == user

\* `new UserResponseDto(createdUser)`: the entity the response is built from
ResponseSource(user, createdUser) == createdUser

\* new UserResponseDto(createdUser)
UserResponseDto(user) ==
  [id |-> user.id, email |-> user.email, name |-> user.name,
   createdAt |-> user.createdAt, updatedAt |-> user.updatedAt]

\* the status the framework answers with: @HttpCode(CREATED), the status an
\* HttpException carries, 500 for any other thrown value
HttpStatus(o) ==
  CASE o.kind = "Created" -> 201
    [] o.kind = "BadRequestException" -> 400
    [] o.kind = "ConflictException" -> 409
    [] OTHER -> 500

\* mutant of PipePasses: no ValidationPipe is installed
PipePasses_Always(errors) == TRUE

\* app.useGlobalPipes(new ValidationPipe(...)): the handler runs only for a
\* body without validation errors
PipePasses(errors) == errors = {}

Init ==
  /\ store = {}
  /\ now = 0
  /\ pc = [p \in Requests |-> "idle"]
  /\ req = [p \in Requests |-> NoBody]
  /\ found = [p \in Requests |-> Null]
  /\ genId = [p \in Requests |-> <<>>]
  /\ entity = [p \in Requests |-> Null]
  /\ out = [p \in Requests |-> NoOut]
  /\ steps = [p \in Requests |-> <<>>]
  /\ dupAtLookup = [p \in Requests |-> FALSE]
  /\ ePc = "off"
  /\ eIn = [id |-> <<>>, email |-> <<>>, name |-> <<>>]
  /\ eRes = [ok |-> FALSE, error |-> NoError, user |-> Null]
  /\ rCall = NoCall
  /\ rRet = NoRet
  /\ rPrev = {}
  /\ rCreated = [id \in GenIds |-> Null]

\* POST /users: the ValidationPipe checks the body, then execute() is called
Controller_create(p) ==
  /\ ePc = "off"
  /\ pc[p] = "idle"
  /\ \E email \in ReqEmails, name \in ReqNames :
       LET body == [email |-> email, name |-> name] IN
       /\ req' = [req EXCEPT ![p] = body]
       /\ IF ~PipePasses(DtoErrors(body))
          THEN /\ out' = [out EXCEPT ![p] = [kind |-> "BadRequestException",
                                              msg |-> "Bad Request", body |-> Null]]
               /\ pc' = [pc EXCEPT ![p] = "done"]
          ELSE /\ pc' = [pc EXCEPT ![p] = "lookup"]
               /\ out' = out
  /\ UNCHANGED <<store, now, found, genId, entity, steps, dupAtLookup, entVars>>

\* `await this.userRepository.findByEmail(email)`
execute_findByEmail(p) ==
  /\ ePc = "off"
  /\ pc[p] = "lookup"
  /\ \E up \in BOOLEAN :
       LET r == RepoFindByEmail(up, store, req[p].email) IN
       /\ steps' = [steps EXCEPT ![p] = Append(@, "findByEmail")]
       /\ dupAtLookup' = [dupAtLookup EXCEPT ![p] =
                            up /\ \E row \in store : row.email = req[p].email]
       /\ IF r.ok
          THEN /\ found' = [found EXCEPT ![p] = r.user]
               /\ pc' = [pc EXCEPT ![p] = "check"]
               /\ out' = out
          ELSE /\ out' = [out EXCEPT ![p] = LookupFailure(r.error)]
               /\ pc' = [pc EXCEPT ![p] = "done"]
               /\ found' = found
  /\ UNCHANGED <<store, now, req, genId, entity, entVars>>

\* the existence check, generateId() and `new User(id, email, name)`; the
\* locals of execute() are dropped when it ends
execute_newUser(p) ==
  /\ ePc = "off"
  /\ pc[p] = "check"
  /\ IF ExistingUserFound(found[p])
     THEN /\ out' = [out EXCEPT ![p] = [kind |-> "ConflictException",
                                         msg |-> ConflictMessage, body |-> Null]]
          /\ pc' = [pc EXCEPT ![p] = "done"]
          /\ found' = [found EXCEPT ![p] = Null]
          /\ UNCHANGED <<genId, entity, steps>>
     ELSE \E id \in GenIds :
            LET u == NewUser(id, req[p].email, req[p].name, now, now) IN
            /\ genId' = [genId EXCEPT ![p] = id]
            /\ found' = found
            /\ steps' = [steps EXCEPT ![p] = @ \o <<"generateId", "newUser">>]
            /\ IF u.ok
               THEN /\ entity' = [entity EXCEPT ![p] = u.user]
                    /\ pc' = [pc EXCEPT ![p] = "create"]
                    /\ out' = out
               ELSE /\ out' = [out EXCEPT ![p] = ConstructionFailure(u.error)]
                    /\ pc' = [pc EXCEPT ![p] = "done"]
                    /\ entity' = entity
  /\ UNCHANGED <<store, now, req, dupAtLookup, entVars>>

\* `await this.userRepository.create(user)` and `new UserResponseDto(createdUser)`
execute_create(p) ==
  /\ ePc = "off"
  /\ pc[p] = "create"
  /\ \E up \in BOOLEAN :
       LET r == RepoCreate(up, store, entity[p], now) IN
       /\ store' = r.rows
       /\ IF r.ok
          THEN /\ steps' = [steps EXCEPT ![p] = @ \o <<"create", "respond">>]
               /\ out' = [out EXCEPT ![p] = [kind |-> "Created", msg |-> NoError,
                                              body |-> UserResponseDto(ResponseSource(entity[p], r.user))]]
          ELSE /\ steps' = [steps EXCEPT ![p] = Append(@, "create")]
               /\ out' = [out EXCEPT ![p] = CreateFailure(r.error)]
  /\ pc' = [pc EXCEPT ![p] = "done"]
  /\ entity' = [entity EXCEPT ![p] = Null]
  /\ UNCHANGED <<now, req, found, genId, dupAtLookup, entVars>>

\* time passes
Tick ==
  /\ ePc = "off"
  /\ now < MaxTime
  /\ now' = now + 1
  /\ UNCHANGED <<store, pc, req, found, genId, entity, out, steps, dupAtLookup, entVars>>

\* the entities another caller of the repository may hold
CallerUsers ==
  {NewUser(id, email, name, now, now).user :
     id \in GenIds, email \in {EmailA, EmailB}, name \in {NameJo}}

\* another caller of the repository: update(user)
Caller_update ==
  /\ ePc = "off"
  /\ \E u \in CallerUsers, up \in BOOLEAN : store' = RepoUpdate(up, store, u, now).rows
  /\ UNCHANGED <<now, pc, req, found, genId, entity, out, steps, dupAtLookup, entVars>>

\* another caller of the repository: delete(id)
Caller_delete ==
  /\ ePc = "off"
  /\ \E id \in GenIds, up \in BOOLEAN : store' = RepoDelete(up, store, id).rows
  /\ UNCHANGED <<now, pc, req, found, genId, entity, out, steps, dupAtLookup, entVars>>

Next ==
  \/ \E p \in Requests : Controller_create(p)
  \/ \E p \in Requests : execute_findByEmail(p)
  \/ \E p \in Requests : execute_newUser(p)
  \/ \E p \in Requests : execute_create(p)
  \/ Tick
  \/ Caller_update
  \/ Caller_delete

Spec == Init /\ [][Next]_vars

\* the create-user invocations alone: no other caller writes to the table
NextCreate ==
  \/ \E p \in Requests : Controller_create(p)
  \/ \E p \in Requests : execute_findByEmail(p)
  \/ \E p \in Requests : execute_newUser(p)
  \/ \E p \in Requests : execute_create(p)
  \/ Tick

SpecCreate == Init /\ [][NextCreate]_vars

----------------------------------------------------------------------------
(* The entity bench: the constructor applied to every input of a bounded set *)

IdInputs == StrsUpTo({"u", " "}, MaxIdLen)
EmailInputs == StrsUpTo({"a", " ", "@", "."}, MaxEmailLen)
LongNames ==
  {Rep("x", MaxNameLength), Rep("x", MaxNameLength + 1), Rep(" ", MaxNameLength),
   <<" ">> \o Rep("x", MaxNameLength - 1), <<" ">> \o Rep("x", MaxNameLength)}
NameInputs == StrsUpTo({"J", " "}, MaxShortName) \cup LongNames

InitEntity ==
  /\ store = {}
  /\ now = 0
  /\ pc = [p \in Requests |-> "idle"]
  /\ req = [p \in Requests |-> NoBody]
  /\ found = [p \in Requests |-> Null]
  /\ genId = [p \in Requests |-> <<>>]
  /\ entity = [p \in Requests |-> Null]
  /\ out = [p \in Requests |-> NoOut]
  /\ steps = [p \in Requests |-> <<>>]
  /\ dupAtLookup = [p \in Requests |-> FALSE]
  /\ ePc = "input"
  /\ eIn = [id |-> <<>>, email |-> <<>>, name |-> <<>>]
  /\ eRes = [ok |-> FALSE, error |-> NoError, user |-> Null]
  /\ rCall = NoCall
  /\ rRet = NoRet
  /\ rPrev = {}
  /\ rCreated = [id \in GenIds |-> Null]

\* new User(id, email, name)
Construct ==
  /\ ePc = "input"
  /\ \E id \in IdInputs, email \in EmailInputs, name \in NameInputs :
       /\ eIn' = [id |-> id, email |-> email, name |-> name]
       /\ eRes' = NewUser(id, email, name, now, now)
  /\ ePc' = "built"
  /\ UNCHANGED <<sysVars, repoVars>>

NextEntity == Construct

SpecEntity == InitEntity /\ [][NextEntity]_vars

\* the running service and the entity bench side by side: every way a User
\* value comes to exist
SpecAll == (Init \/ InitEntity) /\ [][Next \/ NextEntity]_vars

----------------------------------------------------------------------------
(* The repository bench: one caller applies the operations of UserRepository  *)
(* one after the other, each with the backend up or down                      *)

NameAl == <<"A", "l">>

\* the entities the caller passes; it built them when the clock read 0, and
\* their timestamps stay those of their construction
BenchUsers ==
  {NewUser(id, email, name, 0, 0).user :
     id \in GenIds, email \in {EmailA, EmailB}, name \in {NameJo, NameAl}}

InitRepo ==
  /\ store = {}
  /\ now = 0
  /\ pc = [p \in Requests |-> "idle"]
  /\ req = [p \in Requests |-> NoBody]
  /\ found = [p \in Requests |-> Null]
  /\ genId = [p \in Requests |-> <<>>]
  /\ entity = [p \in Requests |-> Null]
  /\ out = [p \in Requests |-> NoOut]
  /\ steps = [p \in Requests |-> <<>>]
  /\ dupAtLookup = [p \in Requests |-> FALSE]
  /\ ePc = "repo"
  /\ eIn = [id |-> <<>>, email |-> <<>>, name |-> <<>>]
  /\ eRes = [ok |-> FALSE, error |-> NoError, user |-> Null]
  /\ rCall = NoCall
  /\ rRet = NoRet
  /\ rPrev = {}
  /\ rCreated = [id \in GenIds |-> Null]

benchFrame == <<now, pc, req, found, genId, entity, out, steps, dupAtLookup, ePc, eIn, eRes>>

\* repository.create(user)
Repo_create ==
  /\ ePc = "repo"
  /\ \E u \in BenchUsers, up \in BOOLEAN :
       LET r == RepoCreate(up, store, u, now) IN
       /\ rCall' = [op |-> "create", up |-> up, at |-> now, arg |-> u]
       /\ rRet' = [ok |-> r.ok, error |-> r.error, value |-> r.user]
       /\ rPrev' = store
       /\ store' = r.rows
       /\ rCreated' = IF r.ok
                      THEN [rCreated EXCEPT ![u.id] = [given |-> u, returned |-> r.user]]
                      ELSE rCreated
  /\ UNCHANGED benchFrame

\* repository.findById(id)
Repo_findById ==
  /\ ePc = "repo"
  /\ \E id \in GenIds, up \in BOOLEAN :
       LET r == RepoFindById(up, store, id) IN
       /\ rCall' = [op |-> "findById", up |-> up, at |-> now, arg |-> id]
       /\ rRet' = [ok |-> r.ok, error |-> r.error, value |-> r.user]
  /\ rPrev' = store
  /\ UNCHANGED <<store, rCreated, benchFrame>>

\* repository.findByEmail(email)
Repo_findByEmail ==
  /\ ePc = "repo"
  /\ \E email \in {EmailA, EmailB}, up \in BOOLEAN :
       LET r == RepoFindByEmail(up, store, email) IN
       /\ rCall' = [op |-> "findByEmail", up |-> up, at |-> now, arg |-> email]
       /\ rRet' = [ok |-> r.ok, error |-> r.error, value |-> r.user]
  /\ rPrev' = store
  /\ UNCHANGED <<store, rCreated, benchFrame>>

\* repository.findAll()
Repo_findAll ==
  /\ ePc = "repo"
  /\ \E up \in BOOLEAN :
       \E r \in RepoFindAll(up, store) :
         /\ rCall' = [op |-> "findAll", up |-> up, at |-> now, arg |-> Null]
         /\ rRet' = [ok |-> r.ok, error |-> r.error, value |-> r.users]
  /\ rPrev' = store
  /\ UNCHANGED <<store, rCreated, benchFrame>>

\* repository.update(user)
Repo_update ==
  /\ ePc = "repo"
  /\ \E u \in BenchUsers, up \in BOOLEAN :
       LET r == RepoUpdate(up, store, u, now) IN
       /\ rCall' = [op |-> "update", up |-> up, at |-> now, arg |-> u]
       /\ rRet' = [ok |-> r.ok, error |-> r.error, value |-> r.user]
       /\ rPrev' = store
       /\ store' = r.rows
       /\ rCreated' = [rCreated EXCEPT ![u.id] = Null]
  /\ UNCHANGED benchFrame

\* repository.delete(id)
Repo_delete ==
  /\ ePc = "repo"
  /\ \E id \in GenIds, up \in BOOLEAN :
       LET r == RepoDelete(up, store, id) IN
       /\ rCall' = [op |-> "delete", up |-> up, at |-> now, arg |-> id]
       /\ rRet' = [ok |-> r.ok, error |-> r.error, value |-> r.value]
       /\ rPrev' = store
       /\ store' = r.rows
       /\ rCreated' = [rCreated EXCEPT ![id] = Null]
  /\ UNCHANGED benchFrame

\* repository.existsByEmail(email)
Repo_existsByEmail ==
  /\ ePc = "repo"
  /\ \E email \in {EmailA, EmailB}, up \in BOOLEAN :
       LET r == RepoExistsByEmail(up, store, email) IN
       /\ rCall' = [op |-> "existsByEmail", up |-> up, at |-> now, arg |-> email]
       /\ rRet' = [ok |-> r.ok, error |-> r.error, value |-> r.value]
  /\ rPrev' = store
  /\ UNCHANGED <<store, rCreated, benchFrame>>

\* time passes between two calls
Repo_Tick ==
  /\ ePc = "repo"
  /\ now < MaxTime
  /\ now' = now + 1
  /\ UNCHANGED <<store, pc, req, found, genId, entity, out, steps, dupAtLookup,
                 ePc, eIn, eRes, repoVars>>

NextRepo ==
  \/ Repo_create
  \/ Repo_findById
  \/ Repo_findByEmail
  \/ Repo_findAll
  \/ Repo_update
  \/ Repo_delete
  \/ Repo_existsByEmail
  \/ Repo_Tick

SpecRepo == InitRepo /\ [][NextRepo]_vars

\* every writer of the table: the running service with its requests, and the
\* caller of the repository operations
SpecStore == (Init \/ InitRepo) /\ [][Next \/ NextRepo]_vars

----------------------------------------------------------------------------
(* The derived updates of the entity: updateName and updateEmail applied to a *)
(* valid User, at any time after its construction                             *)

InitDerive ==
  /\ store = {}
  /\ now = 0
  /\ pc = [p \in Requests |-> "idle"]
  /\ req = [p \in Requests |-> NoBody]
  /\ found = [p \in Requests |-> Null]
  /\ genId = [p \in Requests |-> <<>>]
  /\ entity = [p \in Requests |-> Null]
  /\ out = [p \in Requests |-> NoOut]
  /\ steps = [p \in Requests |-> <<>>]
  /\ dupAtLookup = [p \in Requests |-> FALSE]
  /\ ePc = "derive"
  /\ \E u \in BenchUsers :
       /\ eIn = [id |-> u.id, email |-> u.email, name |-> u.name]
       /\ eRes = [ok |-> TRUE, error |-> NoError, user |-> u]
  /\ rCall = NoCall
  /\ rRet = NoRet
  /\ rPrev = {}
  /\ rCreated = [id \in GenIds |-> Null]

\* user.updateName(newName)
User_updateName ==
  /\ ePc = "derive"
  /\ \E newName \in NameInputs :
       LET r == updateName(eRes.user, newName, now) IN
       /\ rCall' = [op |-> "updateName", up |-> TRUE, at |-> now, arg |-> newName]
       /\ rRet' = [ok |-> r.ok, error |-> r.error, value |-> r.user]
  /\ ePc' = "derived"
  /\ UNCHANGED <<sysVars, eIn, eRes, rPrev, rCreated>>

\* user.updateEmail(newEmail)
User_updateEmail ==
  /\ ePc = "derive"
  /\ \E newEmail \in EmailInputs :
       LET r == updateEmail(eRes.user, newEmail, now) IN
       /\ rCall' = [op |-> "updateEmail", up |-> TRUE, at |-> now, arg |-> newEmail]
       /\ rRet' = [ok |-> r.ok, error |-> r.error, value |-> r.user]
  /\ ePc' = "derived"
  /\ UNCHANGED <<sysVars, eIn, eRes, rPrev, rCreated>>

\* time passes between the construction and the update
Derive_Tick ==
  /\ ePc = "derive"
  /\ now < MaxTime
  /\ now' = now + 1
  /\ UNCHANGED <<store, pc, req, found, genId, entity, out, steps, dupAtLookup, entVars>>

NextDerive ==
  \/ User_updateName
  \/ User_updateEmail
  \/ Derive_Tick

SpecDerive == InitDerive /\ [][NextDerive]_vars

----------------------------------------------------------------------------
(* The seeder (prisma/seed.ts): deleteMany, then createMany of the sample     *)
(* users, with no other writer                                                *)

\* `const users = [...]`
SeedUsers ==
  << [email |-> <<"j", "o", "h", "n", ".", "d", "o", "e", "@", "e", "x", "a", "m", "p", "l", "e", ".", "c", "o", "m">>,
      name |-> <<"J", "o", "h", "n", " ", "D", "o", "e">>],
     [email |-> <<"j", "a", "n", "e", ".", "s", "m", "i", "t", "h", "@", "e", "x", "a", "m", "p", "l", "e", ".", "c", "o", "m">>,
      name |-> <<"J", "a", "n", "e", " ", "S", "m", "i", "t", "h">>],
     [email |-> <<"b", "o", "b", ".", "w", "i", "l", "s", "o", "n", "@", "e", "x", "a", "m", "p", "l", "e", ".", "c", "o", "m">>,
      name |-> <<"B", "o", "b", " ", "W", "i", "l", "s", "o", "n">>],
     [email |-> <<"a", "l", "i", "c", "e", ".", "j", "o", "h", "n", "s", "o", "n", "@", "e", "x", "a", "m", "p", "l", "e", ".", "c", "o", "m">>,
      name |-> <<"A", "l", "i", "c", "e", " ", "J", "o", "h", "n", "s", "o", "n">>],
     [email |-> <<"c", "h", "a", "r", "l", "i", "e", ".", "b", "r", "o", "w", "n", "@", "e", "x", "a", "m", "p", "l", "e", ".", "c", "o", "m">>,
      name |-> <<"C", "h", "a", "r", "l", "i", "e", " ", "B", "r", "o", "w", "n">>],
     [email |-> <<"d", "i", "a", "n", "a", ".", "p", "r", "i", "n", "c", "e", "@", "e", "x", "a", "m", "p", "l", "e", ".", "c", "o", "m">>,
      name |-> <<"D", "i", "a", "n", "a", " ", "P", "r", "i", "n", "c", "e">>],
     [email |-> <<"b", "r", "u", "c", "e", ".", "w", "a", "y", "n", "e", "@", "e", "x", "a", "m", "p", "l", "e", ".", "c", "o", "m">>,
      name |-> <<"B", "r", "u", "c", "e", " ", "W", "a", "y", "n", "e">>],
     [email |-> <<"c", "l", "a", "r", "k", ".", "k", "e", "n", "t", "@", "e", "x", "a", "m", "p", "l", "e", ".", "c", "o", "m">>,
      name |-> <<"C", "l", "a", "r", "k", " ", "K", "e", "n", "t">>] >>

\* the id the database gives the i-th inserted row (the seed data names none)
DefaultId(i) == <<"s", "e", "e", "d", "-">> \o Rep("i", i)

\* mutant of PrismaUserDeleteMany: the table is not cleared
PrismaUserDeleteMany_Keep(rows) == rows

\* prisma.user.deleteMany(): every row is removed
PrismaUserDeleteMany(rows) == {}

\* prisma.user.createMany({data, skipDuplicates: true}): the items from the
\* i-th on are inserted in order, an item whose unique e-mail a row holds is
\* skipped
RECURSIVE PrismaUserCreateMany(_, _, _, _)
PrismaUserCreateMany(rows, data, i, t) ==
  IF i > Len(data) THEN rows
  ELSE IF \E r \in rows : r.email = data[i].email \/ r.id = DefaultId(i)
  THEN PrismaUserCreateMany(rows, data, i + 1, t)
  ELSE PrismaUserCreateMany(
         rows \cup {[id |-> DefaultId(i), email |-> data[i].email, name |-> data[i].name,
                     createdAt |-> t, updatedAt |-> t]},
         data, i + 1, t)

\* the tables the seeder may find: rows written earlier, one of them possibly
\* with the e-mail of a sample user
SeedPreRows ==
  {[id |-> id, email |-> email, name |-> name, createdAt |-> 0, updatedAt |-> 0] :
     id \in GenIds, email \in {EmailA, SeedUsers[1].email}, name \in {NameJo, NameAl}}

SeedPreStores ==
  {rows \in SUBSET SeedPreRows :
     \A r1, r2 \in rows : (r1.id = r2.id \/ r1.email = r2.email) => r1 = r2}

InitSeed ==
  /\ store \in SeedPreStores
  /\ now = 0
  /\ pc = [p \in Requests |-> "idle"]
  /\ req = [p \in Requests |-> NoBody]
  /\ found = [p \in Requests |-> Null]
  /\ genId = [p \in Requests |-> <<>>]
  /\ entity = [p \in Requests |-> Null]
  /\ out = [p \in Requests |-> NoOut]
  /\ steps = [p \in Requests |-> <<>>]
  /\ dupAtLookup = [p \in Requests |-> FALSE]
  /\ ePc = "seed"
  /\ eIn = [id |-> <<>>, email |-> <<>>, name |-> <<>>]
  /\ eRes = [ok |-> FALSE, error |-> NoError, user |-> Null]
  /\ rCall = NoCall
  /\ rRet = NoRet
  /\ rPrev = store
  /\ rCreated = [id \in GenIds |-> Null]

\* `await prisma.user.deleteMany()`; a rejection ends the run
Seed_deleteMany ==
  /\ ePc = "seed"
  /\ rCall.op = "none"
  /\ \E up \in BOOLEAN :
       /\ rCall' = [op |-> "deleteMany", up |-> up, at |-> now, arg |-> Null]
       /\ IF up
          THEN /\ store' = PrismaUserDeleteMany(store)
               /\ rRet' = [ok |-> TRUE, error |-> NoError, value |-> Null]
          ELSE /\ store' = store
               /\ rRet' = [ok |-> FALSE, error |-> PrismaUnavailableError, value |-> Null]
  /\ UNCHANGED <<benchFrame, rPrev, rCreated>>

\* `await prisma.user.createMany({data: users, skipDuplicates: true})`
Seed_createMany ==
  /\ ePc = "seed"
  /\ rCall.op = "deleteMany" /\ rRet.ok
  /\ \E up \in BOOLEAN :
       /\ rCall' = [op |-> "createMany", up |-> up, at |-> now, arg |-> Null]
       /\ IF up
          THEN /\ store' = PrismaUserCreateMany(store, SeedUsers, 1, now)
               /\ rRet' = [ok |-> TRUE, error |-> NoError,
                           value |-> Cardinality(store' \ store)]
          ELSE /\ store' = store
               /\ rRet' = [ok |-> FALSE, error |-> PrismaUnavailableError, value |-> Null]
  /\ UNCHANGED <<benchFrame, rPrev, rCreated>>

\* time passes during the run
Seed_Tick ==
  /\ ePc = "seed"
  /\ now < MaxTime
  /\ now' = now + 1
  /\ UNCHANGED <<store, pc, req, found, genId, entity, out, steps, dupAtLookup, entVars>>

NextSeed ==
  \/ Seed_deleteMany
  \/ Seed_createMany
  \/ Seed_Tick

SpecSeed == InitSeed /\ [][NextSeed]_vars

----------------------------------------------------------------------------
(* The validator rules as the specification numbers them *)

RuleHolds(k, id, email, name) ==
  CASE k = 1 -> Trim(id) # <<>>
    [] k = 2 -> Trim(email) # <<>>
    [] k = 3 -> isValidEmail(email)
    [] k = 4 -> Trim(name) # <<>>
    [] k = 5 -> Len(name) >= 2
    [] k = 6 -> Len(name) <= 100

RuleMessage(k) ==
  CASE k = 1 -> ErrIdEmpty
    [] k = 2 -> ErrEmailEmpty
    [] k = 3 -> ErrEmailInvalid
    [] k = 4 -> ErrNameEmpty
    [] k = 5 -> ErrNameShort
    [] k = 6 -> ErrNameLong

AllRulesHold(id, email, name) == \A k \in 1..6 : RuleHolds(k, id, email, name)

\* C2: an input that violates rule k and satisfies rules 1..k-1 is rejected with
\* the message of rule k, and no User is built
C2_FirstFailingRule ==
  ePc = "built" =>
    \A k \in 1..6 :
      (/\ ~RuleHolds(k, eIn.id, eIn.email, eIn.name)
       /\ \A j \in 1..(k - 1) : RuleHolds(j, eIn.id, eIn.email, eIn.name))
      => (~eRes.ok /\ eRes.error = RuleMessage(k) /\ eRes.user = Null)

\* a name of one non-blank character, behind a valid id and e-mail, was rejected
C2_Witness ==
  /\ ePc = "built"
  /\ Len(eIn.name) = 1 /\ Trim(eIn.name) # <<>>
  /\ \A j \in 1..4 : RuleHolds(j, eIn.id, eIn.email, eIn.name)
  /\ eRes.error = ErrNameShort

\* C3: an input that satisfies the six rules yields a User whose id, email and
\* name are the inputs, character for character
C3_ValidInputKept ==
  (ePc = "built" /\ AllRulesHold(eIn.id, eIn.email, eIn.name)) =>
    /\ eRes.ok
    /\ eRes.user.id = eIn.id
    /\ eRes.user.email = eIn.email
    /\ eRes.user.name = eIn.name

\* a valid name with a leading blank was kept as it is
C3_Witness ==
  /\ ePc = "built"
  /\ eRes.ok
  /\ Head(eIn.name) = " "
  /\ eRes.user.name = eIn.name

----------------------------------------------------------------------------
(* Claims about the running service *)

ValidUser(u) ==
  /\ Trim(u.id) # <<>>
  /\ isValidEmail(u.email)
  /\ Trim(u.name) # <<>>
  /\ Len(u.name) >= 2 /\ Len(u.name) <= 100

Called(p, call) == \E i \in 1..Len(steps[p]) : steps[p][i] = call

StepOrder == <<"findByEmail", "generateId", "newUser", "create", "respond">>

\* the entity validator turned the request's input down
EntityRejected(p) ==
  /\ Called(p, "newUser")
  /\ validate(genId[p], req[p].email, req[p].name) # NoError

\* C1: a request whose e-mail a row holds when it is looked up ends in the
\* conflict error having built no entity and called create zero times, and no
\* step of it changes the table
C1_DuplicateEmail ==
  /\ [](\A p \in Requests :
          (pc[p] = "done" /\ dupAtLookup[p]) =>
            /\ out[p].kind = "ConflictException"
            /\ out[p].msg = ConflictMessage
            /\ steps[p] = <<"findByEmail">>
            /\ entity[p] = Null)
  /\ [][\A p \in Requests :
          (pc'[p] # pc[p] /\ dupAtLookup'[p]) => store' = store]_vars

\* a request ended in the conflict while the row with its e-mail is in the table
C1_Witness ==
  \E p \in Requests :
    /\ pc[p] = "done"
    /\ dupAtLookup[p]
    /\ out[p].kind = "ConflictException"
    /\ \E row \in store : row.email = req[p].email

\* C5: when the entity validator rejects the input inside execute, the request
\* ends with that very Error, create is never called and the table is untouched
C5_ConstructionFailure ==
  /\ [](\A p \in Requests :
          (pc[p] = "done" /\ EntityRejected(p)) =>
            /\ out[p] = [kind |-> "Error",
                         msg |-> validate(genId[p], req[p].email, req[p].name),
                         body |-> Null]
            /\ steps[p] = <<"findByEmail", "generateId", "newUser">>)
  /\ [][\A p \in Requests :
          (pc[p] = "check" /\ pc'[p] = "done" /\ found[p] = Null) => store' = store]_vars

\* a request that passed the DTO checks was rejected by the entity validator
C5_Witness ==
  \E p \in Requests :
    /\ pc[p] = "done"
    /\ DtoErrors(req[p]) = {}
    /\ EntityRejected(p)
    /\ out[p].msg = ErrNameEmpty

\* C6: a request whose e-mail or name the DTO validator or the entity validator
\* rejects is answered with a 4xx status
C6_ValidationIs4xx ==
  \A p \in Requests :
    (pc[p] = "done" /\ (DtoErrors(req[p]) # {} \/ EntityRejected(p))) =>
      (HttpStatus(out[p]) >= 400 /\ HttpStatus(out[p]) <= 499)

\* C7: the calls of execute are a prefix of findByEmail, generateId, new User,
\* create, respond; create is called only after an absent lookup and a
\* successful construction
C7_StepOrder ==
  \A p \in Requests :
    /\ \E n \in 0..Len(StepOrder) : steps[p] = SubSeq(StepOrder, 1, n)
    /\ (pc[p] = "create" \/ Called(p, "create")) =>
         /\ ~dupAtLookup[p]
         /\ validate(genId[p], req[p].email, req[p].name) = NoError
    /\ pc[p] = "create" => (found[p] = Null /\ entity[p] # Null)

\* a request went through all five steps
C7_Witness ==
  \E p \in Requests :
    /\ pc[p] = "done"
    /\ steps[p] = StepOrder
    /\ out[p].kind = "Created"

\* C8: the existence check reads the committed rows only: a request that saw no
\* row with its e-mail and has a valid input goes on to call create, whatever
\* the other requests are doing
C8_CheckThenAct ==
  \A p \in Requests :
    (/\ Called(p, "findByEmail")
     /\ pc[p] # "check"
     /\ ~(steps[p] = <<"findByEmail">> /\ out[p].msg = PrismaUnavailableError)
     /\ ~dupAtLookup[p]
     /\ \A id \in GenIds : validate(id, req[p].email, req[p].name) = NoError)
    => (pc[p] = "create" \/ Called(p, "create"))

\* two requests with the same e-mail both saw it absent and both called create
C8_Witness ==
  \E p, q \in Requests :
    /\ p # q
    /\ req[p].email = req[q].email
    /\ ~dupAtLookup[p] /\ ~dupAtLookup[q]
    /\ Called(p, "create") /\ Called(q, "create")

\* C9: no two rows of the table share an id, and no two share an e-mail
C9_UniqueRows ==
  \A r1, r2 \in store : (r1.id = r2.id \/ r1.email = r2.email) => r1 = r2

\* two requests each added a row, and the table holds both
C9_Witness ==
  /\ Cardinality(store) = 2
  /\ \A p \in Requests : pc[p] = "done" /\ out[p].kind = "Created"

\* C10: an insert the table's constraints reject ends execute with the client's
\* error, not the conflict, is answered 5xx and leaves the table as it was
C10_ConstraintRejection ==
  [][\A p \in Requests :
       (/\ pc[p] = "create" /\ pc'[p] = "done"
        /\ ConstraintViolated(store, entity[p])
        /\ out'[p].msg # PrismaUnavailableError) =>
         /\ store' = store
         /\ out'[p].kind = "PrismaError"
         /\ out'[p].msg = PrismaConstraintError
         /\ HttpStatus(out'[p]) >= 500 /\ HttpStatus(out'[p]) <= 599]_vars

\* an insert failed on the primary key alone: the generated id is taken by a
\* row with another e-mail
C10_Witness ==
  \E p \in Requests :
    /\ pc[p] = "done"
    /\ out[p].kind = "PrismaError"
    /\ out[p].msg = PrismaConstraintError
    /\ \E row \in store : row.id = genId[p] /\ row.email # req[p].email

----------------------------------------------------------------------------
(* Claims about failures of the repository calls and the HTTP outcome *)

Calls(p, call) == Cardinality({i \in 1..Len(steps[p]) : steps[p][i] = call})

\* execute() was entered for the request and is past its lookup
PastLookup(p) ==
  \/ pc[p] \in {"check", "create"}
  \/ pc[p] = "done" /\ out[p].kind # "BadRequestException"

\* C11: an invocation of execute calls findByEmail exactly once and create at
\* most once; a call that fails ends the invocation at once, with the error
\* the repository raised
C11_NoRetries ==
  /\ [](\A p \in Requests :
          /\ Calls(p, "findByEmail") <= 1
          /\ Calls(p, "create") <= 1
          /\ PastLookup(p) => Calls(p, "findByEmail") = 1)
  /\ [][\A p \in Requests :
          /\ (pc[p] = "lookup" /\ pc'[p] # "lookup" /\ steps'[p] = <<"findByEmail">>
               /\ pc'[p] # "check") =>
                /\ pc'[p] = "done"
                /\ out'[p] = [kind |-> "PrismaError", msg |-> PrismaUnavailableError,
                              body |-> Null]
          /\ (pc[p] = "create" /\ pc'[p] # "create" /\ out'[p].kind # "Created") =>
                /\ pc'[p] = "done"
                /\ Calls(p, "create") = 0 /\ steps'[p] = Append(steps[p], "create")
                /\ \E up \in BOOLEAN :
                     LET r == RepoCreate(up, store, entity[p], now) IN
                     ~r.ok /\ out'[p] = [kind |-> "PrismaError", msg |-> r.error,
                                         body |-> Null]]_vars

\* the backend did not answer the lookup of one request and the insert of
\* another; each ended after that one call
C11_Witness ==
  \E p, q \in Requests :
    /\ pc[p] = "done" /\ steps[p] = <<"findByEmail">>
    /\ out[p].msg = PrismaUnavailableError
    /\ pc[q] = "done" /\ steps[q] = <<"findByEmail", "generateId", "newUser", "create">>
    /\ out[q].msg = PrismaUnavailableError

\* C12: a request the DTO rejects is answered 400, one whose e-mail a row holds
\* is answered 409, and one that passes the DTO with an e-mail no row holds is
\* answered 201 with the response shape (requests that ended in an error of
\* the storage layer are left aside)
C12_HttpOutcome ==
  \A p \in Requests :
    pc[p] = "done" =>
      /\ DtoErrors(req[p]) # {} => HttpStatus(out[p]) = 400
      /\ dupAtLookup[p] => HttpStatus(out[p]) = 409
      /\ (DtoErrors(req[p]) = {} /\ ~dupAtLookup[p] /\ out[p].kind # "PrismaError") =>
           /\ HttpStatus(out[p]) = 201
           /\ out[p].body # Null
           /\ out[p].body.email = req[p].email /\ out[p].body.name = req[p].name

\* C13: a request whose body fails the DTO validation never enters execute: it
\* makes no repository call, is answered at once, and its step leaves the
\* table unchanged
C13_DtoBeforeUseCase ==
  /\ [](\A p \in Requests :
          (pc[p] # "idle" /\ DtoErrors(req[p]) # {}) =>
            /\ pc[p] = "done"
            /\ steps[p] = <<>>
            /\ found[p] = Null /\ entity[p] = Null
            /\ out[p].kind = "BadRequestException")
  /\ [][\A p \in Requests :
          (pc'[p] # pc[p] /\ DtoErrors(req'[p]) # {}) => store' = store]_vars

\* a request with a malformed e-mail was turned down while the table holds a row
C13_Witness ==
  \E p \in Requests :
    /\ pc[p] = "done"
    /\ ~IsEmail(req[p].email)
    /\ out[p].kind = "BadRequestException"
    /\ steps[p] = <<>>
    /\ store # {}

\* C14: the response of a successful execute equals, field by field, the row
\* the insert wrote (the entity create returned), timestamps included
C14_ResponseIsPersisted ==
  [][\A p \in Requests :
       (pc[p] = "create" /\ pc'[p] = "done" /\ out'[p].kind = "Created") =>
         \E row \in store' \ store :
           /\ row.id = entity[p].id
           /\ out'[p].body.id = row.id
           /\ out'[p].body.email = row.email
           /\ out'[p].body.name = row.name
           /\ out'[p].body.createdAt = row.createdAt
           /\ out'[p].body.updatedAt = row.updatedAt]_vars

\* a request was answered with the row written after the clock had moved on,
\* and the row is still in the table
C14_Witness ==
  \E p \in Requests :
    /\ pc[p] = "done" /\ out[p].kind = "Created"
    /\ out[p].body.createdAt > 0
    /\ \E row \in store : UserResponseDto(row) = out[p].body

----------------------------------------------------------------------------
(* Claims about the operations of the repository *)

\* the row of the given id among rows, Null if there is none
RowOf(rows, id) == IF \E r \in rows : r.id = id THEN CHOOSE r \in rows : r.id = id ELSE Null

\* the entity has the five fields of the row
SameAsRow(user, row) ==
  /\ user # Null /\ row # Null
  /\ user.id = row.id /\ user.email = row.email /\ user.name = row.name
  /\ user.createdAt = row.createdAt /\ user.updatedAt = row.updatedAt

\* C15: delete(id) returns true exactly when it removed the row of that id, and
\* returns false, raising nothing and leaving the table as it was, exactly when
\* no row had that id
C15_DeleteResult ==
  rCall.op = "delete" =>
    /\ rRet.ok
    /\ rRet.value = TRUE <=>
         (RowOf(rPrev, rCall.arg) # Null /\ store = rPrev \ {RowOf(rPrev, rCall.arg)})
    /\ rRet.value = FALSE <=> RowOf(rPrev, rCall.arg) = Null
    /\ rRet.value = FALSE => store = rPrev

\* C16: an operation called while the backend is unavailable fails with the
\* storage error; none returns a value
C16_BackendFailurePropagates ==
  (rCall.op # "none" /\ ~rCall.up) =>
    /\ ~rRet.ok
    /\ rRet.error = PrismaUnavailableError
    /\ store = rPrev

\* C17: update(user) on a table without a row of user.id fails with the
\* record-not-found error and leaves the table as it was
C17_UpdateMissing ==
  (rCall.op = "update" /\ rCall.up /\ RowOf(rPrev, rCall.arg.id) = Null) =>
    /\ ~rRet.ok
    /\ rRet.error = PrismaNotFoundError
    /\ rRet.value = Null
    /\ store = rPrev

\* an update of an id no row has was rejected while the table holds another row
C17_Witness ==
  /\ rCall.op = "update" /\ rCall.up
  /\ rPrev # {}
  /\ RowOf(rPrev, rCall.arg.id) = Null
  /\ rRet.error = PrismaNotFoundError

\* the table after the row `old` took the e-mail and name of `user`: the row
\* keeps its id and createdAt, every other row is as before
Replaced(rows, old, user, new) ==
  /\ new.id = old.id /\ new.createdAt = old.createdAt
  /\ new.email = user.email /\ new.name = user.name
  /\ store = (rows \ {old}) \cup {new}
  /\ Cardinality(store) = Cardinality(rows)

\* C18 as stated: update(user) on a table with a row of user.id replaces that
\* row's e-mail and name, keeps its id and createdAt, every other row and the
\* cardinality, and returns the updated row
C18_UpdateReplaces ==
  (rCall.op = "update" /\ rCall.up /\ RowOf(rPrev, rCall.arg.id) # Null) =>
    /\ rRet.ok
    /\ Replaced(rPrev, RowOf(rPrev, rCall.arg.id), rCall.arg, RowOf(store, rCall.arg.id))
    /\ SameAsRow(rRet.value, RowOf(store, rCall.arg.id))

\* C18 amended: the replacement happens when no other row holds user.email;
\* when another row holds it the update is rejected and the table is unchanged
C18_UpdateFrame ==
  (rCall.op = "update" /\ rCall.up /\ RowOf(rPrev, rCall.arg.id) # Null) =>
    LET old == RowOf(rPrev, rCall.arg.id) IN
    IF \E r \in rPrev \ {old} : r.email = rCall.arg.email
    THEN /\ ~rRet.ok
         /\ rRet.error = PrismaConstraintError
         /\ store = rPrev
    ELSE /\ rRet.ok
         /\ Replaced(rPrev, old, rCall.arg, RowOf(store, rCall.arg.id))
         /\ SameAsRow(rRet.value, RowOf(store, rCall.arg.id))

\* an update changed the name of a row created earlier, next to another row
C18_Witness ==
  /\ rCall.op = "update" /\ rRet.ok
  /\ Cardinality(rPrev) = 2
  /\ LET old == RowOf(rPrev, rCall.arg.id) IN
     /\ old.name # rCall.arg.name
     /\ old.createdAt < rCall.at
  /\ rRet.value.name = rCall.arg.name
  /\ rRet.value.updatedAt = rCall.at

\* C19: findById(u.id), after create(u) succeeded and with no update or delete
\* of that id since, returns the id, e-mail and name of u and the timestamps
\* create returned
C19_RoundTrip ==
  (rCall.op = "findById" /\ rCall.up /\ rCreated[rCall.arg] # Null) =>
    /\ rRet.ok
    /\ rRet.value # Null
    /\ rRet.value.id = rCreated[rCall.arg].given.id
    /\ rRet.value.email = rCreated[rCall.arg].given.email
    /\ rRet.value.name = rCreated[rCall.arg].given.name
    /\ rRet.value.createdAt = rCreated[rCall.arg].returned.createdAt
    /\ rRet.value.updatedAt = rCreated[rCall.arg].returned.updatedAt

\* a created entity was read back later, after the other row had been updated
C19_Witness ==
  /\ rCall.op = "findById" /\ rCall.up
  /\ rCreated[rCall.arg] # Null
  /\ rRet.value = rCreated[rCall.arg].returned
  /\ rRet.value.createdAt < now
  /\ \E r \in store : r.id # rCall.arg /\ r.updatedAt > r.createdAt

\* C20: create(user) writes the id, e-mail and name of the entity; createdAt
\* and updatedAt of the new row and of the returned entity are the time of the
\* insert, not the timestamps the entity carries
C20_BackendTimestamps ==
  (rCall.op = "create" /\ rRet.ok) =>
    /\ \E row \in store \ rPrev :
         /\ store = rPrev \cup {row}
         /\ row.id = rCall.arg.id /\ row.email = rCall.arg.email /\ row.name = rCall.arg.name
         /\ row.createdAt = rCall.at /\ row.updatedAt = rCall.at
         /\ SameAsRow(rRet.value, row)

\* an entity built at time 0 was inserted later: the row carries the later time
C20_Witness ==
  /\ rCall.op = "create" /\ rRet.ok
  /\ rCall.arg.createdAt # rRet.value.createdAt
  /\ rRet.value.createdAt = rCall.at
  /\ \E row \in store : row.id = rCall.arg.id /\ row.createdAt # rCall.arg.createdAt

\* C21: findAll returns every row of the table exactly once, and of two
\* adjacent users the earlier one is not older than the later one
C21_FindAllOrder ==
  (rCall.op = "findAll" /\ rRet.ok) =>
    /\ Len(rRet.value) = Cardinality(rPrev)
    /\ \A row \in rPrev :
         Cardinality({i \in 1..Len(rRet.value) : SameAsRow(rRet.value[i], row)}) = 1
    /\ \A i \in 1..(Len(rRet.value) - 1) :
         rRet.value[i].createdAt >= rRet.value[i + 1].createdAt
    /\ store = rPrev

\* findAll listed two rows created at different times, the newer one first
C21_Witness ==
  /\ rCall.op = "findAll" /\ rRet.ok
  /\ Len(rRet.value) = 2
  /\ rRet.value[1].createdAt > rRet.value[2].createdAt

\* C22: findByEmail(e) returns absent whenever no row holds e, whatever rows
\* with other e-mails have been inserted
C22_FindByEmailAbsent ==
  (rCall.op = "findByEmail" /\ rCall.up /\ ~\E r \in rPrev : r.email = rCall.arg) =>
    /\ rRet.ok
    /\ rRet.value = Null
    /\ store = rPrev

\* findByEmail(e) answered absent after a user with another e-mail was inserted
C22_Witness ==
  /\ rCall.op = "findByEmail" /\ rCall.up
  /\ rRet.value = Null
  /\ \E r \in store : r.email # rCall.arg /\ rCreated[r.id] # Null

----------------------------------------------------------------------------
(* Claims about the derived updates of the entity *)

\* the e-mail and the name the update proposes
CandidateEmail == IF rCall.op = "updateEmail" THEN rCall.arg ELSE eRes.user.email
CandidateName == IF rCall.op = "updateName" THEN rCall.arg ELSE eRes.user.name

\* C23: updateName and updateEmail validate the candidate in full: a valid one
\* gives a new User with the id and createdAt of the original, the changed
\* field, the other field as it was and updatedAt set to the time of the call;
\* an invalid one gives the error of the first failing rule and no User; the
\* original keeps its fields
C23_DerivedUpdate ==
  ePc = "derived" =>
    /\ IF AllRulesHold(eRes.user.id, CandidateEmail, CandidateName)
       THEN /\ rRet.ok
            /\ rRet.value.id = eRes.user.id
            /\ rRet.value.createdAt = eRes.user.createdAt
            /\ rRet.value.email = CandidateEmail
            /\ rRet.value.name = CandidateName
            /\ rRet.value.updatedAt = rCall.at
       ELSE /\ ~rRet.ok
            /\ rRet.value = Null
            /\ \E k \in 1..6 :
                 /\ ~RuleHolds(k, eRes.user.id, CandidateEmail, CandidateName)
                 /\ \A j \in 1..(k - 1) :
                      RuleHolds(j, eRes.user.id, CandidateEmail, CandidateName)
                 /\ rRet.error = RuleMessage(k)
    /\ eRes.user.id = eIn.id /\ eRes.user.email = eIn.email /\ eRes.user.name = eIn.name
    /\ eRes.user.createdAt = 0 /\ eRes.user.updatedAt = 0

\* a name was changed some time after the construction: the copy has the new
\* name and a later updatedAt, the original has neither
C23_Witness ==
  /\ ePc = "derived"
  /\ rCall.op = "updateName" /\ rRet.ok
  /\ rRet.value.name # eRes.user.name
  /\ rRet.value.updatedAt > eRes.user.updatedAt
  /\ rRet.value.createdAt = eRes.user.createdAt

----------------------------------------------------------------------------
(* Claims about the seeder *)

SeedCompleted == ePc = "seed" /\ rCall.op = "createMany" /\ rRet.ok

\* C24: after a completed run of the seeder no user that was in the table
\* before remains, and the table holds the sample users and nothing else: one
\* row for each of their e-mails
C24_SeederClears ==
  SeedCompleted =>
    /\ store \cap rPrev = {}
    /\ \A r \in store : \A o \in rPrev : r.id # o.id
    /\ Cardinality(store) = Len(SeedUsers)
    /\ \A i \in 1..Len(SeedUsers) :
         Cardinality({r \in store : r.email = SeedUsers[i].email
                                     /\ r.name = SeedUsers[i].name}) = 1
    /\ \A r \in store : \E i \in 1..Len(SeedUsers) : r.email = SeedUsers[i].email
    /\ rRet.value = Len(SeedUsers)

\* the seeder ran to its end on a table that held two users, one of them with
\* the e-mail of a sample user
C24_Witness ==
  /\ SeedCompleted
  /\ Cardinality(rPrev) = 2
  /\ \E o \in rPrev : o.email = SeedUsers[1].email
  /\ Cardinality(store) = Len(SeedUsers)

----------------------------------------------------------------------------
(* Claims about the rows of the table *)

\* C25: every row of the table satisfies the six rules of the validator, so
\* rebuilding the entity from a row never fails
C25_RowsValid ==
  \A row \in store :
    /\ AllRulesHold(row.id, row.email, row.name)
    /\ ToEntity(row).ok
    /\ ToEntity(row).user # Null

\* the table holds a row a request inserted and a later update rewrote
C25_Witness ==
  \E p \in Requests :
    /\ pc[p] = "done" /\ out[p].kind = "Created"
    /\ \E row \in store :
         /\ row.id = genId[p]
         /\ row.updatedAt > row.createdAt
         /\ row.email # req[p].email

\* C26: the step that ends execute with success adds one row to the table: it
\* has the e-mail and name of the request and the generated id, the rows that
\* were there are all still there unchanged, and the table has one row more
C26_CreateFrame ==
  [][\A p \in Requests :
       (pc[p] = "create" /\ pc'[p] = "done" /\ out'[p].kind = "Created") =>
         /\ Cardinality(store') = Cardinality(store) + 1
         /\ store \subseteq store'
         /\ \E row \in store' \ store :
              /\ store' = store \cup {row}
              /\ row.email = req[p].email
              /\ row.name = req[p].name
              /\ row.id = genId[p]]_vars

\* a request succeeded on a table that already held a row, and both rows are
\* in the table
C26_Witness ==
  \E p \in Requests :
    /\ pc[p] = "done" /\ out[p].kind = "Created"
    /\ \E row \in store : row.id = genId[p] /\ row.email = req[p].email
                            /\ row.name = req[p].name
    /\ \E other \in store : other.id # genId[p] /\ other.createdAt < out[p].body.createdAt

----------------------------------------------------------------------------
(* Claims about concurrent invocations with the same e-mail *)

\* two invocations of execute with the same e-mail, both ended
SameEmailDone(p, q) ==
  /\ p # q
  /\ req[p].email = req[q].email
  /\ pc[p] = "done" /\ pc[q] = "done"
  /\ Called(p, "findByEmail") /\ Called(q, "findByEmail")

\* C27 as stated: of the invocations with one e-mail at most one succeeds, each
\* other one ends in the conflict error or a storage error, and after a
\* success exactly one row holds the e-mail
C27_OthersConflictOrStorage ==
  \A p, q \in Requests :
    (SameEmailDone(p, q) /\ out[p].kind = "Created") =>
      /\ out[q].kind \in {"ConflictException", "PrismaError"}
      /\ Cardinality({r \in store : r.email = req[p].email}) = 1

\* C27 amended: each other invocation ends in the conflict error, a storage
\* error or a validation error
C27_AtMostOneSuccess ==
  \A p, q \in Requests :
    (SameEmailDone(p, q) /\ out[p].kind = "Created") =>
      /\ out[q].kind # "Created"
      /\ \/ out[q].kind \in {"ConflictException", "PrismaError"}
         \/ out[q].kind = "Error" /\ out[q].msg = validate(genId[q], req[q].email, req[q].name)
                                  /\ out[q].msg # NoError
      /\ Cardinality({r \in store : r.email = req[p].email}) = 1

\* two invocations raced on one e-mail: both saw it absent, one inserted the
\* row and the other's insert was rejected by the table
C27_Witness ==
  \E p, q \in Requests :
    /\ SameEmailDone(p, q)
    /\ ~dupAtLookup[p] /\ ~dupAtLookup[q]
    /\ out[p].kind = "Created"
    /\ out[q].kind = "PrismaError" /\ out[q].msg = PrismaConstraintError
    /\ genId[p] # genId[q]
    /\ Cardinality({r \in store : r.email = req[p].email}) = 1

----------------------------------------------------------------------------
(* Claims relating two operations of the repository *)

\* C28: on every table and for every e-mail, existsByEmail answers true
\* exactly when findByEmail answers with a user, and neither changes the table
C28_ExistsMatchesFind ==
  /\ (rCall.op = "existsByEmail" /\ rCall.up) =>
       /\ rRet.ok
       /\ rRet.value = (RepoFindByEmail(TRUE, rPrev, rCall.arg).user # Null)
       /\ store = rPrev
  /\ (rCall.op = "findByEmail" /\ rCall.up) =>
       /\ rRet.ok
       /\ (rRet.value # Null) = RepoExistsByEmail(TRUE, rPrev, rCall.arg).value
       /\ store = rPrev

\* existsByEmail answered true on a table of two rows
C28_Witness ==
  /\ rCall.op = "existsByEmail" /\ rCall.up
  /\ rRet.value = TRUE
  /\ Cardinality(store) = 2
  /\ \E r \in store : r.email = rCall.arg

====
